---------------------------- MODULE Spec2Model ----------------------------
(***************************************************************************)
(* Truth-vs-Extract comparison (src/main.py): the value normalizer, the    *)
(* path resolver, the file-name canonicalizer, the identity index, the     *)
(* match resolver and the comparison builder.                              *)
(*                                                                         *)
(* Representation.  A Python string is a sequence of one-character         *)
(* strings, so that strip(), lower() and the regular expression of         *)
(* extract_base_filename act on characters.  Dictionary keys, column       *)
(* headers and the aliases of a selector are atomic TLA+ strings (only     *)
(* their equality matters); a selector is the sequence of its pieces, the  *)
(* character "|" being a piece of its own.  A Python/JSON value is a       *)
(* tagged record (field t).                                                *)
(***************************************************************************)
EXTENDS Integers, Sequences, FiniteSets, TLC

VARIABLES
    \* build_comparison
    truth_json,      \* argument: the truth collection
    extract_csv,     \* argument: the extract rows, in order
    truth_items,     \* local of build_comparison (lines 111-116)
    item_i,          \* position of the loop of line 133
    truth_lookup,    \* file-name index (line 130)
    truth_by_name,   \* provider-name side table (line 131)
    row_i,           \* position of the loop of line 176
    truths,          \* the truth resolved for each processed row (line 181-189)
    rows,            \* the output rows (line 175)
    pc,              \* position in build_comparison
    \* _dig
    dig_data, dig_path, dig_i, dig_cur, dig_pc,
    \* extract_base_filename
    cf_in, cf_out, cf_out2, cf_pc,
    \* _normalize
    nz_val, nz_out, nz_pc

mainVars == <<truth_json, extract_csv, truth_items, item_i, truth_lookup,
              truth_by_name, row_i, truths, rows, pc>>
digVars  == <<dig_data, dig_path, dig_i, dig_cur, dig_pc>>
cfVars   == <<cf_in, cf_out, cf_out2, cf_pc>>
nzVars   == <<nz_val, nz_out, nz_pc>>
vars     == <<mainVars, digVars, cfVars, nzVars>>

-----------------------------------------------------------------------------
(* Python values *)

Str(s)   == [t |-> "str", s |-> s]
None     == [t |-> "null"]
Bool(b)  == [t |-> "bool", b |-> b]
Dict(d)  == [t |-> "dict", d |-> d]
List(l)  == [t |-> "list", l |-> l]
\* A finite number hi*10^6 + lo + frac/10, negated when neg; k is "int" or
\* "float" (an int has frac = 0); k = "nan" is the float not-a-number.
Num(k, neg, hi, lo, frac) ==
    [t |-> "num", k |-> k, neg |-> neg, hi |-> hi, lo |-> lo, frac |-> frac]
IntNum(n) == Num("int", FALSE, n \div 1000000, n % 1000000, 0)
NaN      == [t |-> "num", k |-> "nan", neg |-> FALSE, hi |-> 0, lo |-> 0, frac |-> 0]
\* A str holding JSON text: ok says whether json.loads decodes it, val to what.
JsonText(ok, val) == [t |-> "json", ok |-> ok, val |-> val]

EmptyStr == Str(<<>>)

IsDict(v) == v.t = "dict"

\* Python truth value (used by `or`, `not`, `if x`).
Truthy(v) ==
    CASE v.t = "null" -> FALSE
      [] v.t = "str"  -> v.s # <<>>
      [] v.t = "json" -> TRUE
      [] v.t = "bool" -> v.b
      [] v.t = "dict" -> DOMAIN v.d # {}
      [] v.t = "list" -> v.l # <<>>
      [] v.t = "num"  -> v.k = "nan" \/ v.hi # 0 \/ v.lo # 0 \/ v.frac # 0

\* a or b
PyOr(a, b) == IF Truthy(a) THEN a ELSE b

\* d.get(k) and d.get(k, default) of a dict value
Get(v, k) == IF k \in DOMAIN v.d THEN v.d[k] ELSE None
GetOr(v, k, default) == IF k \in DOMAIN v.d THEN v.d[k] ELSE default

\* Put with a fault: the first record written under a key is kept
\* (dict.setdefault); C9 must not survive it
PutIfAbsent(f, k, v) == f @@ (k :> v)

\* f[k] = v of a dict held as a function
Put(f, k, v) == (k :> v) @@ f

-----------------------------------------------------------------------------
(* Characters *)

Digits  == <<"0", "1", "2", "3", "4", "5", "6", "7", "8", "9">>
UpperCh == <<"A", "B", "C", "D", "E", "F", "G", "H", "I", "J", "K", "L", "M",
             "N", "O", "P", "Q", "R", "S", "T", "U", "V", "W", "X", "Y", "Z">>
LowerCh == <<"a", "b", "c", "d", "e", "f", "g", "h", "i", "j", "k", "l", "m",
             "n", "o", "p", "q", "r", "s", "t", "u", "v", "w", "x", "y", "z">>
Whitespace == {" ", "\t", "\n", "\r", "\f"}
\* the class [a-f0-9] of line 123
HexLower == {"0", "1", "2", "3", "4", "5", "6", "7", "8", "9",
             "a", "b", "c", "d", "e", "f"}

\* str.lower() on one character (ASCII letters)
LowerChar(c) ==
    IF \E i \in 1..Len(UpperCh) : UpperCh[i] = c
    THEN LowerCh[CHOOSE i \in 1..Len(UpperCh) : UpperCh[i] = c]
    ELSE c

\* str.lower()
Lower(s) == [i \in 1..Len(s) |-> LowerChar(s[i])]

\* str.strip()
Strip(s) ==
    LET keep == {i \in 1..Len(s) : s[i] \notin Whitespace}
    IN  IF keep = {} THEN <<>>
        ELSE LET lo == CHOOSE i \in keep : \A j \in keep : i <= j
                 hi == CHOOSE i \in keep : \A j \in keep : j <= i
             IN  SubSeq(s, lo, hi)

-----------------------------------------------------------------------------
(* Filename canonicalizer: extract_base_filename, lines 118-125 *)

\* s[i..] starts with '-' and the 8-4-4-4-12 groups of [a-f0-9], '-' between
\* them: the fixed part of uuid_pattern, 37 characters
UuidLen == 37
HyphenAt == {1, 10, 15, 20, 25}
UuidAt(s, i) ==
    /\ i >= 1
    /\ i + UuidLen - 1 <= Len(s)
    /\ \A k \in 1..UuidLen :
          IF k \in HyphenAt THEN s[i + k - 1] = "-"
                            ELSE s[i + k - 1] \in HexLower

\* The optional group (\.[^.]+)? followed by $, tried at position j (the
\* character after the fixed part).  The greedy group takes the rest of the
\* string when that rest is '.' and then one or more characters other than
\* '.'; without the group, $ matches at the end of the string or just before
\* a final newline.  The result is the text of group 1, or "no match".
NoMatch == <<"no match">>
TailAt(s, j) ==
    IF /\ j + 1 <= Len(s)
       /\ s[j] = "."
       /\ \A k \in (j + 1)..Len(s) : s[k] # "."
    THEN [m |-> TRUE, group |-> SubSeq(s, j, Len(s)), end |-> Len(s)]
    ELSE IF j = Len(s) + 1 \/ (j = Len(s) /\ s[j] = "\n")
         THEN [m |-> TRUE, group |-> <<>>, end |-> j - 1]
         ELSE [m |-> FALSE, group |-> NoMatch, end |-> 0]

MatchAt(s, i) == UuidAt(s, i) /\ TailAt(s, i + UuidLen).m

\* re.sub(uuid_pattern, r'\1', filename): the leftmost match is replaced by
\* its group 1; a match reaches the end of the string (or the final newline),
\* so there is no second one.
ReSub(s) ==
    LET starts == {i \in 1..Len(s) : MatchAt(s, i)}
    IN  IF starts = {} THEN s
        ELSE LET i    == CHOOSE a \in starts : \A b \in starts : a <= b
                 tail == TailAt(s, i + UuidLen)
             IN  SubSeq(s, 1, i - 1) \o tail.group \o SubSeq(s, tail.end + 1, Len(s))

\* extract_base_filename(filename)
extract_base_filename(filename) ==
    IF ~Truthy(filename) THEN EmptyStr
    ELSE Str(ReSub(filename.s))

\* normalize_key(val), lines 127-128
normalize_key(val) ==
    IF val # None THEN Str(Lower(Strip(val.s))) ELSE EmptyStr

-----------------------------------------------------------------------------
(* Value normalizer: _normalize, lines 45-62 *)

RECURSIVE DigitsOf(_)
\* str(n) of an int n >= 0
DigitsOf(n) ==
    IF n < 10 THEN <<Digits[n + 1]>>
    ELSE DigitsOf(n \div 10) \o <<Digits[(n % 10) + 1]>>

RECURSIVE Pad(_, _)
\* n >= 0 in at least w digits, zero-filled (%Y, %m, %d of strftime)
Pad(n, w) ==
    IF w <= 1 THEN DigitsOf(n)
    ELSE IF Len(DigitsOf(n)) >= w THEN DigitsOf(n)
         ELSE <<"0">> \o Pad(n, w - 1)

\* digits of hi*10^6 + lo
BigDigits(hi, lo) ==
    IF hi = 0 THEN DigitsOf(lo) ELSE DigitsOf(hi) \o Pad(lo, 6)

\* val > T for T = 1e12 (tHi = 10^6) or 1e9 (tHi = 10^3): lines 51 and 53.
\* A negative number is not greater than T.
Million == 1000000
Thousand == 1000
Exceeds(v, tHi) ==
    /\ ~v.neg
    /\ \/ v.hi > tHi
       \/ v.hi = tHi /\ (v.lo > 0 \/ v.frac > 0)

\* Whole seconds H*10^6 + L of the timestamp handed to utcfromtimestamp:
\* val / 1000 (line 52) or val (line 54), for val >= 0.
SecondsOf(v, millis) ==
    IF millis
    THEN [H |-> v.hi \div Thousand,
          L |-> (v.hi % Thousand) * Thousand + (v.lo \div Thousand)]
    ELSE [H |-> v.hi, L |-> v.lo]

\* Days since 1970-01-01 of H*10^6 + L seconds (54 * 10^6 s = 625 days)
SecondsPerDay == 86400
EpochDays(sec) ==
    625 * (sec.H \div 54) + (((sec.H % 54) * Million + sec.L) \div SecondsPerDay)

\* The proleptic Gregorian date of a day number (datetime's calendar)
CivilFromDays(days) ==
    LET z   == days + 719468
        era == z \div 146097
        doe == z - era * 146097
        yoe == (doe - (doe \div 1460) + (doe \div 36524) - (doe \div 146096)) \div 365
        doy == doe - (365 * yoe + (yoe \div 4) - (yoe \div 100))
        mp  == (5 * doy + 2) \div 153
        d   == doy - ((153 * mp + 2) \div 5) + 1
        m   == IF mp < 10 THEN mp + 3 ELSE mp - 9
        y   == yoe + era * 400 + (IF m <= 2 THEN 1 ELSE 0)
    IN  [year |-> y, month |-> m, day |-> d]

\* ts.strftime("%Y-%m-%d")
Strftime(ts) ==
    Pad(ts.year, 4) \o <<"-">> \o Pad(ts.month, 2) \o <<"-">> \o Pad(ts.day, 2)

\* datetime's MAXYEAR: utcfromtimestamp raises beyond it, caught at line 59
MaxDatetimeYear == 9999
MinSaneYear == 1900
MaxSaneYear == 2100

\* Lines 50-60: the date string, or "no date" when the try block ends without
\* returning (ValueError raised at line 56 or by utcfromtimestamp, or the
\* year guard of line 57 fails).
NoDate == <<"no date">>
EpochDate(v) ==
    IF ~(Exceeds(v, Million) \/ Exceeds(v, Thousand)) THEN NoDate
    ELSE LET ts == CivilFromDays(EpochDays(SecondsOf(v, Exceeds(v, Million))))
         IN  IF ts.year > MaxDatetimeYear THEN NoDate
             ELSE IF MinSaneYear <= ts.year /\ ts.year <= MaxSaneYear
                  THEN Strftime(ts)
                  ELSE NoDate

\* Line 61: str(int(val)) for a float (int() truncates toward zero), str(val)
\* for an int.
PlainNumber(v) ==
    LET mag == BigDigits(v.hi, v.lo)
    IN  IF v.neg /\ (v.hi # 0 \/ v.lo # 0) THEN <<"-">> \o mag ELSE mag

\* str(val) of a value that is neither None nor a number (line 62)
PyStr(v) ==
    CASE v.t = "str"  -> v.s
      [] v.t = "bool" -> IF v.b THEN <<"T", "r", "u", "e">>
                                ELSE <<"F", "a", "l", "s", "e">>
      [] OTHER        -> <<"<", v.t, ">">>

\* _normalize(val): the comparable string of a value
_normalize(val) ==
    IF val = None \/ (val.t = "num" /\ val.k = "nan") THEN <<>>
    ELSE IF val.t = "num"
         THEN IF EpochDate(val) # NoDate THEN EpochDate(val) ELSE PlainNumber(val)
         ELSE IF val.t = "bool" THEN PyStr(val)
              ELSE Strip(PyStr(val))

\* _is_match with a fault: the strings are compared as they are, case
\* included; C1 must not survive it
IsMatchCaseSensitive(a, b) ==
    LET na == _normalize(a)
        nb == _normalize(b)
    IN  IF ~(na # <<>> \/ nb # <<>>) THEN EmptyStr
        ELSE Bool(na = nb)

\* _is_match with a fault: no verdict as soon as one side is blank; C6 must
\* not survive it
IsMatchEitherBlank(a, b) ==
    LET na == _normalize(a)
        nb == _normalize(b)
    IN  IF ~(na # <<>> /\ nb # <<>>) THEN EmptyStr
        ELSE Bool(Lower(na) = Lower(nb))

\* _is_match(a, b), lines 65-69: "" when both are blank, else the equality of
\* the lower-cased normalized strings
_is_match(a, b) ==
    LET na == _normalize(a)
        nb == _normalize(b)
    IN  IF ~(na # <<>> \/ nb # <<>>) THEN EmptyStr
        ELSE Bool(Lower(na) = Lower(nb))

-----------------------------------------------------------------------------
(* Field mapping: MAPPING, lines 24-39, in declaration order *)

Alt2(a, b) == <<a, "|", b>>
Alt4(a, b, c, d) == <<a, "|", b, "|", c, "|", d>>
Alt5(a, b, c, d, e) == <<a, "|", b, "|", c, "|", d, "|", e>>

MAPPING == <<
    [header |-> "Content Type",   path |-> << <<"contentType">> >>],
    [header |-> "Document Type",  path |-> << <<"contentType">> >>],
    [header |-> "Name",           path |-> << <<"metaData">>, <<"providerName">> >>],
    [header |-> "Issuing Entity",
     path |-> << <<"metaData">>,
                 Alt5("issuingAuthority", "issuingEntity", "issuer",
                      "issuingAgency", "issuingOrganization") >>],
    [header |-> "Issued Date",
     path |-> << <<"metaData">>,
                 Alt4("issueDate", "issuedDate", "dateIssued", "issuedOn") >>],
    [header |-> "Expiration Date",
     path |-> << <<"metaData">>,
                 Alt4("expirationDate", "expireDate", "expires", "expDate") >>],
    [header |-> "State",
     path |-> << <<"metaData">>,
                 Alt5("state", "stateCode", "issuingState", "jurisdiction",
                      "stateAbbreviation") >>],
    [header |-> "result_id",      path |-> << <<"metaData">>, <<"resultsDate">> >>],
    [header |-> "Education and Training Sub-Category",
     path |-> << <<"metaData">>, <<"subCategory">> >>],
    [header |-> "Life Support and Misc. Certifications Sub-Category",
     path |-> << <<"metaData">>, <<"subCategory">> >>],
    [header |-> "Board Certification Sub-Category",
     path |-> << <<"metaData">>, <<"subCategory">> >>],
    [header |-> "DEA Registration Sub-Category",
     path |-> << <<"metaData">>, <<"subCategory">> >>],
    [header |-> "Military Service Sub-Category",
     path |-> << <<"metaData">>, <<"subCategory">> >>] >>

-----------------------------------------------------------------------------
(* Path resolver: _dig, lines 72-87 *)

\* "|" in key
HasPipe(key) == \E i \in 1..Len(key) : key[i] = "|"

RECURSIVE SplitFrom(_, _, _)
\* key.split("|"): the pieces from position i on, opt being the option read
\* so far
SplitFrom(key, i, opt) ==
    IF i > Len(key) THEN <<opt>>
    ELSE IF key[i] = "|" THEN <<opt>> \o SplitFrom(key, i + 1, "")
         ELSE SplitFrom(key, i + 1, opt \o key[i])

Split(key) == SplitFrom(key, 1, "")

\* the key string itself (no "|" in it)
Whole(key) == Split(key)[1]

RECURSIVE FindTruthyOption(_, _, _)
\* FindOption with a fault: an option decides only when its value is truthy;
\* C10 must not survive it
FindTruthyOption(cur, options, i) ==
    IF i > Len(options) THEN EmptyStr
    ELSE IF Truthy(Get(cur, options[i]))
         THEN Get(cur, options[i])
         ELSE FindTruthyOption(cur, options, i + 1)

RECURSIVE FindOption(_, _, _)
\* Lines 79-83: found = "" unless an option is a key of cur; the first such
\* option decides, whatever its value
FindOption(cur, options, i) ==
    IF i > Len(options) THEN EmptyStr
    ELSE IF options[i] \in DOMAIN cur.d
         THEN GetOr(cur, options[i], EmptyStr)
         ELSE FindOption(cur, options, i + 1)

\* One iteration of the loop of line 74: ret says that line 76 returned ""
DigStep(cur, key) ==
    IF ~IsDict(cur) THEN [ret |-> TRUE, cur |-> EmptyStr]
    ELSE IF HasPipe(key)
         THEN [ret |-> FALSE, cur |-> FindOption(cur, Split(key), 1)]
         ELSE [ret |-> FALSE, cur |-> GetOr(cur, Whole(key), EmptyStr)]

RECURSIVE DigFrom(_, _, _)
DigFrom(cur, path, i) ==
    IF i > Len(path) THEN cur
    ELSE LET step == DigStep(cur, path[i])
         IN  IF step.ret THEN EmptyStr ELSE DigFrom(step.cur, path, i + 1)

\* _dig(data, path)
_dig(data, path) == DigFrom(data, path, 1)

-----------------------------------------------------------------------------
(* Identity index: build_comparison, lines 111-173 *)

\* Lines 111-116
TruthItems(tj) ==
    IF IsDict(tj) THEN GetOr(tj, "testData", List(<<>>)).l
    ELSE IF tj.t = "list" THEN tj.l
         ELSE <<>>

\* Lines 134-146: the metadata object of an item, "skip" for `continue`
Skip == [t |-> "skip"]
MetadataObj(item) ==
    LET metadata_raw == Get(item, "METADATA")
    IN  IF metadata_raw.t = "json"
        THEN IF metadata_raw.ok THEN metadata_raw.val ELSE Skip
        ELSE IF IsDict(metadata_raw) THEN metadata_raw
             ELSE Skip

\* Lines 148-150, for a metadata object that is a dict
OriginalFileName(m) == PyOr(Get(m, "fileName"), Get(m, "filename"))
NewFileName(item, m) == PyOr(Get(item, "NEW_FILE_NAME"), Get(m, "newFileName"))
ProviderName(m) == Get(m, "providerName")

\* Line 152
NoIdentity(item, m) ==
    /\ ~Truthy(OriginalFileName(m))
    /\ ~Truthy(NewFileName(item, m))
    /\ ~Truthy(ProviderName(m))

\* Lines 155-159
TruthRecord(item, m) ==
    Dict([fileName    |-> PyOr(PyOr(OriginalFileName(m), NewFileName(item, m)), EmptyStr),
          contentType |-> Get(item, "NAME"),
          metaData    |-> m])

\* PutNames with a fault: the name is keyed as it is, its base name is not;
\* C4 must not survive it
PutNamesVerbatim(lookup, name, rec) ==
    IF Truthy(name) THEN Put(lookup, name.s, rec) ELSE lookup

\* Lines 162-164 and 167-169: name and its base name are keyed when name is
\* truthy
PutNames(lookup, name, rec) ==
    IF Truthy(name)
    THEN Put(Put(lookup, name.s, rec), extract_base_filename(name).s, rec)
    ELSE lookup

\* Lines 161-169
InsertFileNames(lookup, item, m) ==
    PutNames(PutNames(lookup, NewFileName(item, m), TruthRecord(item, m)),
             OriginalFileName(m), TruthRecord(item, m))

\* Lines 172-173
InsertProvider(by_name, item, m) ==
    IF Truthy(ProviderName(m))
    THEN Put(by_name, normalize_key(ProviderName(m)).s, TruthRecord(item, m))
    ELSE by_name

-----------------------------------------------------------------------------
(* Match resolver and comparison builder: lines 176-203 *)

\* d.get(key) of a table keyed by strings
TableGet(tbl, key) == IF key.s \in DOMAIN tbl THEN tbl[key.s] ELSE None

\* ResolveTruth with a fault: the base file name is not looked up; C3 must
\* not survive it
ResolveTruthNoBase(lookup, by_name, row) ==
    LET truth == TableGet(lookup, GetOr(row, "Assets", EmptyStr))
    IN  IF truth = None
        THEN TableGet(by_name, normalize_key(GetOr(row, "Name", EmptyStr)))
        ELSE truth

\* Lines 177-189
ResolveTruth(lookup, by_name, row) ==
    LET file_name      == GetOr(row, "Assets", EmptyStr)
        base_file_name == extract_base_filename(file_name)
        truth          == PyOr(TableGet(lookup, file_name),
                               TableGet(lookup, base_file_name))
    IN  IF truth = None
        THEN TableGet(by_name, normalize_key(GetOr(row, "Name", EmptyStr)))
        ELSE truth

\* The dict left by a sequence of assignments rec[k] = v: a dict keeps its
\* keys in the order of their first assignment, each with the value of its
\* last assignment
DictOf(assigns) ==
    LET IsFirst(i) == \A j \in 1..(i - 1) : assigns[j].k # assigns[i].k
        firsts     == SelectSeq([i \in 1..Len(assigns) |-> i], IsFirst)
        last(key)  == LET at == {i \in 1..Len(assigns) : assigns[i].k = key}
                      IN  CHOOSE i \in at : \A j \in at : j <= i
    IN  [n \in 1..Len(firsts) |->
            [k |-> assigns[firsts[n]].k,
             v |-> assigns[last(assigns[firsts[n]].k)].v]]

Spacer == "  "

\* Lines 193-199: the four assignments made for one entry of MAPPING
FieldAssignments(truth, row, field) ==
    LET truth_val   == IF Truthy(truth) THEN _dig(truth, field.path) ELSE EmptyStr
        extract_val == GetOr(row, field.header, EmptyStr)
    IN  << [k |-> "Truth: " \o field.header,   v |-> Str(_normalize(truth_val))],
           [k |-> "Extract: " \o field.header, v |-> Str(_normalize(extract_val))],
           [k |-> field.header \o " Match?",   v |-> _is_match(truth_val, extract_val)],
           [k |-> Spacer,                       v |-> EmptyStr] >>

\* Lines 191-199: the assignments to rec, in program order
Assignments(truth, row) ==
    [n \in 1..(1 + 4 * Len(MAPPING)) |->
        IF n = 1 THEN [k |-> "File Name", v |-> GetOr(row, "Assets", EmptyStr)]
        ELSE FieldAssignments(truth, row, MAPPING[((n - 2) \div 4) + 1])[((n - 2) % 4) + 1]]

\* Lines 191-199: rec
BuildRec(truth, row) == DictOf(Assignments(truth, row))

-----------------------------------------------------------------------------
(* Strings used as inputs *)

Uuid == <<"1", "2", "3", "e", "4", "5", "6", "7", "-", "e", "8", "9", "b", "-", "1", "2", "d", "3", "-", "a", "4", "5", "6", "-", "4", "2", "6", "6", "1", "4", "1", "7", "4", "0", "0", "0">>
Report == <<"r", "e", "p", "o", "r", "t">>
DotPdf == <<".", "p", "d", "f">>
DocPdf == <<"d", "o", "c", ".", "p", "d", "f">>
OrigPdf == <<"o", "r", "i", "g", ".", "p", "d", "f">>
UnknownPdf == <<"u", "n", "k", "n", "o", "w", "n", ".", "p", "d", "f">>
JaneDoe == <<"J", "a", "n", "e", " ", "D", "o", "e">>
JaneDoeLower == <<"j", "a", "n", "e", " ", "d", "o", "e">>
CPR == <<"C", "P", "R">>
CprLower == <<"c", "p", "r">>
License == <<"L", "i", "c", "e", "n", "s", "e">>
Other == <<"O", "t", "h", "e", "r">>
TX == <<"T", "X">>
TxPadded == <<"t", "x", " ">>
Date2023 == <<"2", "0", "2", "3", "-", "1", "1", "-", "1", "4">>
UuidUpper == [i \in 1..Len(Uuid) |->
                 IF \E j \in 1..Len(LowerCh) : LowerCh[j] = Uuid[i]
                 THEN UpperCh[CHOOSE j \in 1..Len(LowerCh) : LowerCh[j] = Uuid[i]]
                 ELSE Uuid[i]]
ReportUuidPdf == Report \o <<"-">> \o Uuid \o DotPdf
ReportPdf == Report \o DotPdf

EmptyDict == [k \in {} |-> None]

-----------------------------------------------------------------------------
(* build_comparison as a state machine *)

MaxItems == 2
MaxRows == 1

\* Truth items: the item shape of the truth collection
ItemFull == Dict([NEW_FILE_NAME |-> Str(ReportUuidPdf), NAME |-> Str(License),
                  METADATA |-> Dict([providerName |-> Str(JaneDoe),
                                     subCategory |-> Str(CPR),
                                     expires |-> None,
                                     expDate |-> Str(Date2023)])])
ItemNoMeta == Dict([NEW_FILE_NAME |-> Str(ReportUuidPdf)])
ItemProvider == Dict([METADATA |-> Dict([providerName |-> Str(JaneDoe)])])
ItemBadJson == Dict([NEW_FILE_NAME |-> Str(DocPdf), METADATA |-> JsonText(FALSE, None)])
ItemJsonList == Dict([NEW_FILE_NAME |-> Str(DocPdf),
                      METADATA |-> JsonText(TRUE, List(<<>>))])
ItemJsonDict == Dict([NEW_FILE_NAME |-> Str(ReportPdf), NAME |-> Str(Other),
                      METADATA |-> JsonText(TRUE,
                          Dict([fileName |-> Str(OrigPdf),
                                issueDate |-> IntNum(1700000000),
                                state |-> Str(TX)]))])
ItemEmptyMeta == Dict([NAME |-> Str(License), METADATA |-> Dict(EmptyDict)])

Items == {ItemFull, ItemNoMeta, ItemProvider, ItemBadJson, ItemJsonList,
          ItemJsonDict, ItemEmptyMeta}

\* Extract rows: column header -> cell string
RowMatch == Dict(("Assets" :> Str(ReportUuidPdf)) @@ ("Name" :> Str(JaneDoeLower))
                 @@ ("Education and Training Sub-Category" :> Str(CprLower)))
RowUnknownBlank == Dict(("Assets" :> Str(UnknownPdf)) @@ ("Name" :> EmptyStr))
RowBase == Dict(("Assets" :> Str(ReportPdf)) @@ ("State" :> Str(TxPadded))
                @@ ("Issued Date" :> Str(Date2023)))
RowUnknownState == Dict(("Assets" :> Str(UnknownPdf)) @@ ("Name" :> EmptyStr)
                        @@ ("State" :> Str(TX)))
RowEmpty == Dict(EmptyDict)

Rows == {RowMatch, RowUnknownBlank, RowBase, RowUnknownState, RowEmpty}

SeqsUpTo(S, n) == UNION {[1..k -> S] : k \in 0..n}

\* The shapes of the truth collection: a bare sequence, a mapping with a
\* testData sequence, a mapping without it, and values of other shapes
TruthInputs ==
    {List(items) : items \in SeqsUpTo(Items, MaxItems)}
    \cup {Dict([testData |-> List(items)]) : items \in SeqsUpTo(Items, 1)}
    \cup {Dict(EmptyDict), None, Str(DocPdf)}

RowInputs == SeqsUpTo(Rows, MaxRows)

MainIdle ==
    /\ truth_json = None /\ extract_csv = <<>> /\ truth_items = <<>>
    /\ item_i = 0 /\ truth_lookup = EmptyDict /\ truth_by_name = EmptyDict
    /\ row_i = 0 /\ truths = <<>> /\ rows = <<>> /\ pc = "idle"
DigIdle ==
    /\ dig_data = None /\ dig_path = <<>> /\ dig_i = 0 /\ dig_cur = None
    /\ dig_pc = "idle"
CfIdle == cf_in = None /\ cf_out = None /\ cf_out2 = None /\ cf_pc = "idle"
NzIdle == nz_val = None /\ nz_out = <<>> /\ nz_pc = "idle"

Init ==
    /\ truth_json \in TruthInputs
    /\ extract_csv \in RowInputs
    /\ truth_items = <<>>
    /\ item_i = 0
    /\ truth_lookup = EmptyDict
    /\ truth_by_name = EmptyDict
    /\ row_i = 0
    /\ truths = <<>>
    /\ rows = <<>>
    /\ pc = "start"
    /\ DigIdle /\ CfIdle /\ NzIdle

\* Lines 111-131: the items of the truth collection, the empty tables
Start ==
    /\ pc = "start"
    /\ truth_items' = TruthItems(truth_json)
    /\ truth_lookup' = EmptyDict
    /\ truth_by_name' = EmptyDict
    /\ item_i' = 1
    /\ pc' = "index"
    /\ UNCHANGED <<truth_json, extract_csv, row_i, truths, rows>>
    /\ UNCHANGED <<digVars, cfVars, nzVars>>

\* Lines 134-146 and 152-153: `continue`, the item is not indexed
IndexSkipItem ==
    /\ pc = "index"
    /\ item_i <= Len(truth_items)
    /\ LET item == truth_items[item_i]
           m    == MetadataObj(item)
       IN  m = Skip \/ (IsDict(m) /\ NoIdentity(item, m))
    /\ item_i' = item_i + 1
    /\ UNCHANGED <<truth_json, extract_csv, truth_items, truth_lookup,
                   truth_by_name, row_i, truths, rows, pc>>
    /\ UNCHANGED <<digVars, cfVars, nzVars>>

\* Line 148: metadata_obj.get on a decoded value that is no dict raises
\* AttributeError, which nothing in build_comparison catches
IndexRaise ==
    /\ pc = "index"
    /\ item_i <= Len(truth_items)
    /\ LET m == MetadataObj(truth_items[item_i])
       IN  m # Skip /\ ~IsDict(m)
    /\ pc' = "raised"
    /\ UNCHANGED <<truth_json, extract_csv, truth_items, item_i, truth_lookup,
                   truth_by_name, row_i, truths, rows>>
    /\ UNCHANGED <<digVars, cfVars, nzVars>>

\* Lines 148-173: the item is recorded under each of its identity keys
IndexInsert ==
    /\ pc = "index"
    /\ item_i <= Len(truth_items)
    /\ LET item == truth_items[item_i]
           m    == MetadataObj(item)
       IN  /\ IsDict(m)
           /\ ~NoIdentity(item, m)
           /\ truth_lookup' = InsertFileNames(truth_lookup, item, m)
           /\ truth_by_name' = InsertProvider(truth_by_name, item, m)
    /\ item_i' = item_i + 1
    /\ UNCHANGED <<truth_json, extract_csv, truth_items, row_i, truths, rows, pc>>
    /\ UNCHANGED <<digVars, cfVars, nzVars>>

\* Line 175: the loop of line 133 is over
IndexDone ==
    /\ pc = "index"
    /\ item_i > Len(truth_items)
    /\ rows' = <<>>
    /\ row_i' = 1
    /\ pc' = "rows"
    /\ UNCHANGED <<truth_json, extract_csv, truth_items, item_i, truth_lookup,
                   truth_by_name, truths>>
    /\ UNCHANGED <<digVars, cfVars, nzVars>>

\* Lines 176-201: one extract row
ProcessRow ==
    /\ pc = "rows"
    /\ row_i <= Len(extract_csv)
    /\ LET row   == extract_csv[row_i]
           truth == ResolveTruth(truth_lookup, truth_by_name, row)
       IN  /\ truths' = Append(truths, truth)
           /\ rows' = Append(rows, BuildRec(truth, row))
    /\ row_i' = row_i + 1
    /\ UNCHANGED <<truth_json, extract_csv, truth_items, item_i, truth_lookup,
                   truth_by_name, pc>>
    /\ UNCHANGED <<digVars, cfVars, nzVars>>

\* Line 203
Return ==
    /\ pc = "rows"
    /\ row_i > Len(extract_csv)
    /\ pc' = "done"
    /\ UNCHANGED <<truth_json, extract_csv, truth_items, item_i, truth_lookup,
                   truth_by_name, row_i, truths, rows>>
    /\ UNCHANGED <<digVars, cfVars, nzVars>>

Next ==
    \/ Start
    \/ IndexSkipItem
    \/ IndexRaise
    \/ IndexInsert
    \/ IndexDone
    \/ ProcessRow
    \/ Return

Spec == Init /\ [][Next]_vars

-----------------------------------------------------------------------------
(* _dig as a state machine: one step per iteration of the loop of line 74 *)

MaxPath == 2

DigKeys == {"a", "b"}
DigLeaves == {EmptyStr, None, Str(<<"x">>)}
DictsOver(vals) == {Dict(f) : f \in UNION {[K -> vals] : K \in SUBSET DigKeys}}
\* Mappings of depth two at most over the keys a and b, and values that are
\* no mapping
DigData == DictsOver(DigLeaves \cup DictsOver(DigLeaves)) \cup DigLeaves
DigSelectors == {<<"a">>, <<"b">>, Alt2("a", "b"), Alt2("b", "a"), Alt2("c", "a")}
DigPaths == SeqsUpTo(DigSelectors, MaxPath)

DigInit ==
    /\ dig_data \in DigData
    /\ dig_path \in DigPaths
    /\ dig_i = 1
    /\ dig_cur = dig_data
    /\ dig_pc = "loop"
    /\ MainIdle /\ CfIdle /\ NzIdle

\* Lines 75-76: the cursor is no dict, "" is returned
DigStop ==
    /\ dig_pc = "loop"
    /\ dig_i <= Len(dig_path)
    /\ DigStep(dig_cur, dig_path[dig_i]).ret
    /\ dig_cur' = EmptyStr
    /\ dig_pc' = "returned"
    /\ UNCHANGED <<dig_data, dig_path, dig_i>>
    /\ UNCHANGED <<mainVars, cfVars, nzVars>>

\* Lines 77-86: the cursor moves along the selector
DigAdvance ==
    /\ dig_pc = "loop"
    /\ dig_i <= Len(dig_path)
    /\ ~DigStep(dig_cur, dig_path[dig_i]).ret
    /\ dig_cur' = DigStep(dig_cur, dig_path[dig_i]).cur
    /\ dig_i' = dig_i + 1
    /\ UNCHANGED <<dig_data, dig_path, dig_pc>>
    /\ UNCHANGED <<mainVars, cfVars, nzVars>>

\* Line 87: return cur
DigReturn ==
    /\ dig_pc = "loop"
    /\ dig_i > Len(dig_path)
    /\ dig_pc' = "returned"
    /\ UNCHANGED <<dig_data, dig_path, dig_i, dig_cur>>
    /\ UNCHANGED <<mainVars, cfVars, nzVars>>

DigNext == DigStop \/ DigAdvance \/ DigReturn

SpecDig == DigInit /\ [][DigNext]_vars

-----------------------------------------------------------------------------
(* extract_base_filename applied, and applied again to its result *)

MaxChunks == 4

Chunks == {Report, <<"-">> \o Uuid, <<"-">> \o UuidUpper, DotPdf, <<".">>,
           <<"\n">>, <<"-", "1", "2", "3", "e">>}

RECURSIVE Concat(_)
Concat(ss) == IF ss = <<>> THEN <<>> ELSE Head(ss) \o Concat(Tail(ss))

\* File names put together from at most MaxChunks chunks, and None
CfInputs == {Str(Concat(ss)) : ss \in SeqsUpTo(Chunks, MaxChunks)} \cup {None}

CfInit ==
    /\ cf_in \in CfInputs
    /\ cf_out = None
    /\ cf_out2 = None
    /\ cf_pc = "start"
    /\ MainIdle /\ DigIdle /\ NzIdle

CfApply ==
    /\ cf_pc = "start"
    /\ cf_out' = extract_base_filename(cf_in)
    /\ cf_pc' = "once"
    /\ UNCHANGED <<cf_in, cf_out2>>
    /\ UNCHANGED <<mainVars, digVars, nzVars>>

CfReapply ==
    /\ cf_pc = "once"
    /\ cf_out2' = extract_base_filename(cf_out)
    /\ cf_pc' = "twice"
    /\ UNCHANGED <<cf_in, cf_out>>
    /\ UNCHANGED <<mainVars, digVars, nzVars>>

CfNext == CfApply \/ CfReapply

SpecCanon == CfInit /\ [][CfNext]_vars

-----------------------------------------------------------------------------
(* _normalize applied to a number *)

NzHi == {0, 1, 999, 1000, 1700, 4133, 4134, 1000000, 1700000, 4133980, 4133981}
NzLo == {0, 42, 980799, 980800}
NzFrac == {0, 5, 7}

\* ints and finite floats of both signs, not-a-number and None
NzInputs ==
    {Num("int", neg, hi, lo, 0) : neg \in {FALSE}, hi \in NzHi, lo \in NzLo}
    \cup {Num("int", TRUE, hi, lo, 0) : hi \in NzHi \ {0}, lo \in NzLo}
    \cup {Num("float", neg, hi, lo, frac) :
             neg \in BOOLEAN, hi \in NzHi, lo \in NzLo, frac \in NzFrac}
    \cup {NaN, None}

NzInit ==
    /\ nz_val \in NzInputs
    /\ nz_out = <<>>
    /\ nz_pc = "start"
    /\ MainIdle /\ DigIdle /\ CfIdle

NzApply ==
    /\ nz_pc = "start"
    /\ nz_out' = _normalize(nz_val)
    /\ nz_pc' = "returned"
    /\ UNCHANGED nz_val
    /\ UNCHANGED <<mainVars, digVars, cfVars>>

NzNext == NzApply

SpecNorm == NzInit /\ [][NzNext]_vars

-----------------------------------------------------------------------------
(* Properties *)

\* The columns of an output row, in order, and the value of one of them
Columns(rec) == [i \in 1..Len(rec) |-> rec[i].k]
Col(rec, key) == rec[CHOOSE i \in 1..Len(rec) : rec[i].k = key].v

IndexBuilt == pc \in {"rows", "done"}

\* C1: in every output row and for every mapped field X, `X Match?` is ""
\* when `Truth: X` and `Extract: X` are both "", and otherwise is the boolean
\* equality of the two strings compared without regard to case.
C1_MatchVerdict ==
    \A r \in 1..Len(rows) : \A f \in 1..Len(MAPPING) :
        LET X == MAPPING[f].header
            t == Col(rows[r], "Truth: " \o X)
            e == Col(rows[r], "Extract: " \o X)
            verdict == Col(rows[r], X \o " Match?")
        IN  /\ t.t = "str" /\ e.t = "str"
            /\ IF t.s = <<>> /\ e.s = <<>>
               THEN verdict = EmptyStr
               ELSE verdict = Bool(Lower(t.s) = Lower(e.s))

\* C1 witness: a row whose truth "CPR" and extract "cpr" differ in case only
\* and are judged a match, beside a field with no verdict.
C1_Witness ==
    \E r \in 1..Len(rows) :
        LET X == "Education and Training Sub-Category"
        IN  /\ Col(rows[r], "Truth: " \o X) = Str(CPR)
            /\ Col(rows[r], "Extract: " \o X) = Str(CprLower)
            /\ Col(rows[r], X \o " Match?") = Bool(TRUE)
            /\ Col(rows[r], "State Match?") = EmptyStr

\* The column order of the output contract: File Name, then for each field
\* of MAPPING its three columns and a spacer
ContractColumns ==
    [n \in 1..(1 + 4 * Len(MAPPING)) |->
        IF n = 1 THEN "File Name"
        ELSE LET X == MAPPING[((n - 2) \div 4) + 1].header
                 c == (n - 2) % 4
             IN  CASE c = 0 -> "Truth: " \o X
                   [] c = 1 -> "Extract: " \o X
                   [] c = 2 -> X \o " Match?"
                   [] c = 3 -> Spacer]

\* C2: every output row has the columns File Name, then per mapped field
\* Truth: X, Extract: X, X Match? and a spacer, one spacer per field.
C2_ColumnOrder ==
    \A r \in 1..Len(rows) : Columns(rows[r]) = ContractColumns

\* C3: the truth of every processed row is the record of the first strategy
\* that hits: the Assets value in the file-name index, else its base name in
\* the file-name index, else the trimmed lower-cased Name in the
\* provider-name table, else none.  A truth item known only by providerName
\* "Jane Doe" is found for the Name "jane doe".
C3_ResolutionChain ==
    \A r \in 1..Len(truths) :
        LET row    == extract_csv[r]
            assets == GetOr(row, "Assets", EmptyStr).s
            base   == extract_base_filename(Str(assets)).s
            name   == Lower(Strip(GetOr(row, "Name", EmptyStr).s))
        IN  /\ truths[r] =
                  IF assets \in DOMAIN truth_lookup THEN truth_lookup[assets]
                  ELSE IF base \in DOMAIN truth_lookup THEN truth_lookup[base]
                  ELSE IF name \in DOMAIN truth_by_name THEN truth_by_name[name]
                  ELSE None
            /\ (truth_items = <<ItemProvider>> /\ name = JaneDoeLower)
                  => /\ truths[r] # None
                     /\ truths[r].d.metaData.d.providerName = Str(JaneDoe)

\* C3 witness: the truth item is known by providerName "Jane Doe" only; the
\* Assets of the row and its base name miss, and its Name "jane doe" hits.
C3_Witness ==
    /\ truth_items = <<ItemProvider>>
    /\ Len(truths) >= 1
    /\ extract_csv[1] = RowMatch
    /\ DOMAIN truth_lookup = {}
    /\ truths[1] = TruthRecord(ItemProvider, MetadataObj(ItemProvider))

\* The single item of the truth collection, its NEW_FILE_NAME being a
\* non-empty string
SingleNamedItem ==
    /\ IndexBuilt
    /\ Len(truth_items) = 1
    /\ Truthy(Get(truth_items[1], "NEW_FILE_NAME"))

\* C4 as stated: built from a single item with NEW_FILE_NAME = N, whatever
\* its other fields, the index maps N and canonicalize(N) to the record of
\* that item.
C4_Original ==
    SingleNamedItem =>
        LET item == truth_items[1]
            N    == Get(item, "NEW_FILE_NAME")
            base == extract_base_filename(N)
        IN  /\ N.s \in DOMAIN truth_lookup
            /\ base.s \in DOMAIN truth_lookup
            /\ truth_lookup[N.s] = truth_lookup[base.s]
            /\ truth_lookup[N.s].d.contentType = Get(item, "NAME")

\* The METADATA of an item is a mapping, or JSON text that decodes to one
UsableMetadata(item) ==
    LET raw == Get(item, "METADATA")
    IN  \/ raw.t = "dict"
        \/ raw.t = "json" /\ raw.ok /\ raw.val.t = "dict"

\* C4 amended: built from a single item with a non-empty NEW_FILE_NAME = N
\* and a METADATA that is a mapping or JSON text decoding to a mapping, the
\* index maps N and canonicalize(N) to the record built from that item.
C4_IndexedByBothKeys ==
    (SingleNamedItem /\ UsableMetadata(truth_items[1])) =>
        LET item == truth_items[1]
            N    == Get(item, "NEW_FILE_NAME")
            base == extract_base_filename(N)
            raw  == Get(item, "METADATA")
            meta == IF raw.t = "json" THEN raw.val ELSE raw
            orig == IF Truthy(Get(meta, "fileName")) THEN Get(meta, "fileName")
                    ELSE IF Truthy(Get(meta, "filename")) THEN Get(meta, "filename")
                    ELSE N
            record == Dict([fileName |-> orig, contentType |-> Get(item, "NAME"),
                            metaData |-> meta])
        IN  /\ N.s \in DOMAIN truth_lookup
            /\ base.s \in DOMAIN truth_lookup
            /\ truth_lookup[N.s] = record
            /\ truth_lookup[base.s] = record

\* C4 witness: the item named report-<uuid>.pdf is indexed under that name
\* and under report.pdf.
C4_Witness ==
    /\ pc = "done"
    /\ truth_items = <<ItemFull>>
    /\ ReportUuidPdf \in DOMAIN truth_lookup
    /\ ReportPdf \in DOMAIN truth_lookup
    /\ ReportUuidPdf # ReportPdf

\* C5: build_comparison never raises, whatever the truth collection, the
\* METADATA of its items and the columns of the extract rows.
C5_NeverRaises == pc # "raised"

\* C6 as stated: for a row that resolves to no truth record (its Assets
\* matches no truth entry and its Name is ""), every Truth: column is "" and
\* every Match? column is "".
C6_Original ==
    \A r \in 1..Len(rows) :
        LET row    == extract_csv[r]
            assets == GetOr(row, "Assets", EmptyStr)
        IN  ( /\ truths[r] = None
              /\ assets.s \notin DOMAIN truth_lookup
              /\ extract_base_filename(assets).s \notin DOMAIN truth_lookup
              /\ Get(row, "Name") = EmptyStr )
            => \A f \in 1..Len(MAPPING) :
                  /\ Col(rows[r], "Truth: " \o MAPPING[f].header) = EmptyStr
                  /\ Col(rows[r], MAPPING[f].header \o " Match?") = EmptyStr

\* C6 amended: for a row that resolves to no truth record, every Truth:
\* column is "", and X Match? is "" when the row's own X cell is absent or
\* blank and False when it holds text; it is never True.
C6_UnmatchedRow ==
    \A r \in 1..Len(rows) :
        truths[r] = None =>
            \A f \in 1..Len(MAPPING) :
                LET X    == MAPPING[f].header
                    cell == GetOr(extract_csv[r], X, EmptyStr)
                IN  /\ Col(rows[r], "Truth: " \o X) = EmptyStr
                    /\ Col(rows[r], X \o " Match?") =
                          IF Strip(cell.s) = <<>> THEN EmptyStr ELSE Bool(FALSE)

\* C6 witness: an unmatched row whose State cell holds text is judged False
\* there and has no verdict where its cell is empty.
C6_Witness ==
    \E r \in 1..Len(rows) :
        /\ truths[r] = None
        /\ extract_csv[r] = RowUnknownState
        /\ Col(rows[r], "Truth: State") = EmptyStr
        /\ Col(rows[r], "State Match?") = Bool(FALSE)
        /\ Col(rows[r], "Name Match?") = EmptyStr

\* C7: canonicalize(canonicalize(x)) = canonicalize(x) for every string x.
C7_Idempotent == cf_pc = "twice" => cf_out2 = cf_out

\* The rule C8 states: the thresholds are compared with the magnitude of v,
\* and a number that is no integer keeps its fractional part
RefExceeds(v, tHi) ==
    \/ v.hi > tHi
    \/ v.hi = tHi /\ (v.lo > 0 \/ v.frac > 0)

\* The UTC day of v taken as milliseconds or as seconds since the epoch
RefDays(v, millis) ==
    LET sec  == SecondsOf(v, millis)
        days == EpochDays(sec)
        part == \/ (((sec.H % 54) * Million + sec.L) % SecondsPerDay) # 0
                \/ v.frac # 0
                \/ millis /\ (v.lo % Thousand) # 0
    IN  IF ~v.neg THEN days
        ELSE IF part THEN 0 - days - 1 ELSE 0 - days

RefPlain(v) ==
    LET mag  == BigDigits(v.hi, v.lo)
        sign == IF v.neg /\ (v.hi # 0 \/ v.lo # 0 \/ v.frac # 0)
                THEN <<"-">> ELSE <<>>
    IN  IF v.k = "float" /\ v.frac # 0
        THEN sign \o mag \o <<".">> \o DigitsOf(v.frac)
        ELSE sign \o mag

RefNormalize(v) ==
    IF ~(RefExceeds(v, Million) \/ RefExceeds(v, Thousand)) THEN RefPlain(v)
    ELSE LET ts == CivilFromDays(RefDays(v, RefExceeds(v, Million)))
         IN  IF MinSaneYear <= ts.year /\ ts.year <= MaxSaneYear
             THEN Strftime(ts)
             ELSE RefPlain(v)

\* C8: for every number v, _normalize(v) is the date of v read as
\* milliseconds (magnitude above 10^12) or seconds (magnitude above 10^9)
\* since the epoch when its year is within [1900, 2100], and else the plain
\* integer string of an integer or whole float and the plain numeric string,
\* fraction kept, of any other number.
C8_ReferenceRule ==
    (nz_pc = "returned" /\ nz_val.t = "num" /\ nz_val.k # "nan")
        => nz_out = RefNormalize(nz_val)

\* The identity keys an item derives: those of lines 162-169 in the
\* file-name index, that of line 173 in the provider-name table
Indexable(item) ==
    /\ IsDict(MetadataObj(item))
    /\ ~NoIdentity(item, MetadataObj(item))
NameKeys(name) ==
    IF Truthy(name) THEN {name.s, extract_base_filename(name).s} ELSE {}
FileKeys(item) ==
    IF Indexable(item)
    THEN NameKeys(NewFileName(item, MetadataObj(item)))
         \cup NameKeys(OriginalFileName(MetadataObj(item)))
    ELSE {}
ProviderKeys(item) ==
    IF Indexable(item) /\ Truthy(ProviderName(MetadataObj(item)))
    THEN {Lower(Strip(ProviderName(MetadataObj(item)).s))}
    ELSE {}

\* The last item of the truth collection that derives key k
LastDeriving(k, Keys(_)) ==
    CHOOSE j \in 1..Len(truth_items) :
        /\ k \in Keys(truth_items[j])
        /\ \A i \in (j + 1)..Len(truth_items) : k \notin Keys(truth_items[i])

\* table holds exactly the keys the items derive, each with the record of
\* the last item deriving it
LastWriteWins(table, Keys(_)) ==
    /\ DOMAIN table = UNION {Keys(truth_items[j]) : j \in 1..Len(truth_items)}
    /\ \A k \in DOMAIN table :
          LET item == truth_items[LastDeriving(k, Keys)]
          IN  table[k] = TruthRecord(item, MetadataObj(item))

\* C9: once the index is built, every key of the file-name index and of the
\* provider-name table holds the record of the last item that derives it,
\* and this stays so while the rows are processed.
C9_LastWriteWins ==
    IndexBuilt =>
        /\ LastWriteWins(truth_lookup, FileKeys)
        /\ LastWriteWins(truth_by_name, ProviderKeys)

\* C9 witness: report.pdf is derived by the first item (as a base name) and by
\* the second (as its name); after a row is processed it holds the second.
C9_Witness ==
    /\ pc = "done"
    /\ Len(rows) >= 1
    /\ truth_items = <<ItemFull, ItemJsonDict>>
    /\ ReportPdf \in FileKeys(ItemFull) \cap FileKeys(ItemJsonDict)
    /\ truth_lookup[ReportPdf] = TruthRecord(ItemJsonDict, MetadataObj(ItemJsonDict))
    /\ truth_lookup[ReportUuidPdf] = TruthRecord(ItemFull, MetadataObj(ItemFull))

\* C10: each step of _dig takes the next selector: a cursor that is no
\* mapping ends the walk with ""; a single key moves the cursor to its value,
\* or "" when absent; an alias list moves it to the value of the first alias
\* that is a key of the mapping, whatever that value, or "" when none is.
C10_DigWalk ==
    [][ (dig_pc = "loop" /\ dig_i <= Len(dig_path)) =>
          LET aliases == Split(dig_path[dig_i])
          IN  IF dig_cur.t # "dict"
              THEN dig_pc' = "returned" /\ dig_cur' = EmptyStr
              ELSE /\ dig_pc' = "loop"
                   /\ dig_i' = dig_i + 1
                   /\ IF Len(aliases) = 1
                      THEN dig_cur' = IF aliases[1] \in DOMAIN dig_cur.d
                                      THEN dig_cur.d[aliases[1]]
                                      ELSE EmptyStr
                      ELSE \/ \E j \in 1..Len(aliases) :
                                 /\ aliases[j] \in DOMAIN dig_cur.d
                                 /\ \A i \in 1..(j - 1) : aliases[i] \notin DOMAIN dig_cur.d
                                 /\ dig_cur' = dig_cur.d[aliases[j]]
                           \/ /\ \A j \in 1..Len(aliases) : aliases[j] \notin DOMAIN dig_cur.d
                              /\ dig_cur' = EmptyStr
      ]_vars

\* C10 witness: the alias list c|a met a mapping without c whose a is None,
\* and the cursor is None.
C10_Witness ==
    /\ dig_pc = "loop"
    /\ dig_i = 2
    /\ dig_path[1] = Alt2("c", "a")
    /\ dig_data.t = "dict"
    /\ "a" \in DOMAIN dig_data.d
    /\ dig_data.d["a"] = None
    /\ dig_cur = None

=============================================================================
